---- MODULE Spec2Model ----
(***************************************************************************)
(* Blog API worker (src/src/index.ts) over its D1 schema                   *)
(* (src/unnamed/part_000, the schema.sql that package.json's db:init       *)
(* executes).  Texts are sequences of one-character strings, timestamps    *)
(* are the ticks of a logical clock, SQL NULL is NULL (timestamps, ids) or *)
(* NULLTEXT (texts).                                                       *)
(*                                                                         *)
(* Spec      requests served one at a time, one action per handler.        *)
(* SpecConc  the same handlers, statement by statement, interleaved.       *)
(***************************************************************************)
EXTENDS Integers, Sequences, FiniteSets, TLC

VARIABLES DB, clock, resp, inflight

vars == <<DB, clock, resp, inflight>>

----------------------------------------------------------------------------
(* Bounds of the model *)

\* the clock's last tick: every handler that reads the time takes a tick
MaxClock == 3
\* requests in flight at once under SpecConc
MaxInflight == 2
\* the last tick of SpecConc's clock
MaxConcClock == 3

----------------------------------------------------------------------------
(* Values *)

NULL == -1
NULLTEXT == <<"NULL">>
EMPTY == <<>>
ELLIPSIS == <<".", ".", ".">>

TitleMax == 200
AuthorMax == 100
ExcerptMax == 500
ExcerptLen == 200
NameMax == 100
DescriptionMax == 500
CommentMax == 1000
PageDefault == 1
LimitDefault == 10
AdminLimitDefault == 20

UPPER == <<"A","B","C","D","E","F","G","H","I","J","K","L","M",
           "N","O","P","Q","R","S","T","U","V","W","X","Y","Z">>
LOWER == <<"a","b","c","d","e","f","g","h","i","j","k","l","m",
           "n","o","p","q","r","s","t","u","v","w","x","y","z">>
DIGITS == <<"0","1","2","3","4","5","6","7","8","9">>

Range(s) == { s[i] : i \in DOMAIN s }

\* String.prototype.toLowerCase, one character
toLowerCase(ch) ==
  IF \E i \in DOMAIN UPPER : UPPER[i] = ch
  THEN LOWER[CHOOSE i \in DOMAIN UPPER : UPPER[i] = ch]
  ELSE ch

\* the class [a-z0-9]
IsSlugChar(ch) == ch \in Range(LOWER) \cup Range(DIGITS)

RECURSIVE SkipRun(_)
\* the rest of s after a leading run of characters outside [a-z0-9]
SkipRun(s) ==
  IF s = <<>> \/ IsSlugChar(Head(s)) THEN s ELSE SkipRun(Tail(s))

RECURSIVE ReplaceRuns(_)
\* .replace(/[^a-z0-9]+/g, '-')
ReplaceRuns(s) ==
  IF s = <<>> THEN <<>>
  ELSE IF IsSlugChar(Head(s)) THEN <<Head(s)>> \o ReplaceRuns(Tail(s))
  ELSE <<"-">> \o ReplaceRuns(SkipRun(Tail(s)))

\* .replace(/(^-|-$)/g, '')
StripHyphens(s) ==
  LET a == IF s # <<>> /\ Head(s) = "-" THEN Tail(s) ELSE s
  IN  IF a # <<>> /\ a[Len(a)] = "-" THEN SubSeq(a, 1, Len(a) - 1) ELSE a

generateSlug(title) ==
  StripHyphens(ReplaceRuns([i \in DOMAIN title |-> toLowerCase(title[i])]))

\* content.substring(0, 200) + '...'
DefaultExcerpt(content) ==
  SubSeq(content, 1, IF Len(content) < ExcerptLen THEN Len(content) ELSE ExcerptLen)
    \o ELLIPSIS

Has(data, key) == key \in DOMAIN data

\* data.key || dflt, for a text: an absent key and '' are falsy
TextOr(data, key, dflt) ==
  IF Has(data, key) /\ data[key] # EMPTY THEN data[key] ELSE dflt

\* data.key || null, for a number: an absent key and 0 are falsy
NumOrNull(data, key) ==
  IF Has(data, key) /\ data[key] # 0 THEN data[key] ELSE NULL

----------------------------------------------------------------------------
(* Validation schemas.  A request body is a function from its keys to     *)
(* their values; zod drops no key the model sends.  Whether a text is a    *)
(* URL or an e-mail address is zod's to decide: the bodies drawn carry     *)
(* only well-formed ones.                                                  *)

LenIn(v, key, lo, hi) == Len(v[key]) >= lo /\ Len(v[key]) <= hi

PostFieldsOk(v) ==
  /\ Has(v, "title") => LenIn(v, "title", 1, TitleMax)
  /\ Has(v, "content") => Len(v.content) >= 1
  /\ Has(v, "excerpt") => Len(v.excerpt) <= ExcerptMax
  /\ Has(v, "author") => LenIn(v, "author", 1, AuthorMax)
  /\ Has(v, "status") => v.status \in {"draft", "published"}

\* postSchema.safeParse(value).success
postSchema(v) ==
  /\ Has(v, "title") /\ Has(v, "content") /\ Has(v, "author")
  /\ PostFieldsOk(v)

\* postSchema.safeParse(value).data: status defaults to 'draft'
postSchemaData(v) ==
  IF Has(v, "status") THEN v ELSE [status |-> "draft"] @@ v

\* postSchema.partial().safeParse(value).success; its data is value itself:
\* zod 3 (package.json: ^3.22.0) applies no default under .partial()
postSchemaPartial(v) == PostFieldsOk(v)

categorySchema(v) ==
  /\ Has(v, "name") /\ LenIn(v, "name", 1, NameMax)
  /\ Has(v, "description") => Len(v.description) <= DescriptionMax

commentSchema(v) ==
  /\ Has(v, "post_id")
  /\ Has(v, "author_name") /\ LenIn(v, "author_name", 1, AuthorMax)
  /\ Has(v, "author_email")
  /\ Has(v, "content") /\ LenIn(v, "content", 1, CommentMax)

statusSchema(v) ==
  Has(v, "status") /\ v.status \in {"pending", "approved", "rejected"}

----------------------------------------------------------------------------
(* The D1 database: three tables, each a function from the ids of its rows *)
(* to the rows, and sqlite_sequence (AUTOINCREMENT: the largest id a table *)
(* has ever given out).  A statement is one atomic step: it yields the     *)
(* database after it, the error it throws ("" for none) and D1's result    *)
(* object { success, meta: { changes, last_row_id } }.                      *)

UNIQUE_FAILED == "UNIQUE constraint failed"
FOREIGN_KEY_FAILED == "FOREIGN KEY constraint failed"

EmptyDB ==
  [posts |-> <<>>, categories |-> <<>>, comments |-> <<>>,
   seq |-> [posts |-> 0, categories |-> 0, comments |-> 0]]

D1Result(changes, last_row_id) ==
  [success |-> TRUE, meta |-> [changes |-> changes, last_row_id |-> last_row_id]]

Ran(db, changes, last_row_id) ==
  [db |-> db, error |-> "", result |-> D1Result(changes, last_row_id)]

Threw(db, message) ==
  [db |-> db, error |-> message, result |-> D1Result(0, 0)]

\* obj.key === value, of a result object: a property it lacks is undefined
StrictEq(obj, key, value) == key \in DOMAIN obj /\ obj[key] = value

\* INSERT INTO posts (...) VALUES (...)
InsertPost(db, row) ==
  IF \E i \in DOMAIN db.posts : db.posts[i].slug = row.slug
  THEN Threw(db, UNIQUE_FAILED)
  ELSE IF row.category_id # NULL /\ row.category_id \notin DOMAIN db.categories
  THEN Threw(db, FOREIGN_KEY_FAILED)
  ELSE LET id == db.seq.posts + 1
       IN  Ran([db EXCEPT !.posts = (id :> ([id |-> id] @@ row)) @@ @,
                          !.seq.posts = id], 1, id)

\* PatchedPost with 'draft' written for an omitted status, as a default
\* kept under .partial() would
PatchedPostDefaultStatus(row, data, now) ==
  [k \in DOMAIN row |->
     IF k = "slug" /\ Has(data, "title") THEN generateSlug(data.title)
     ELSE IF k # "id" /\ Has(data, k) THEN data[k]
     ELSE IF k = "status" THEN "draft"
     ELSE IF k = "updated_at" THEN now
     ELSE IF k = "published_at" /\ Has(data, "status") /\ data.status = "published"
     THEN now
     ELSE row[k]]

\* the row UPDATE posts SET ... writes over `row`: every supplied key, the
\* slug with the title, updated_at, and published_at under status 'published'
PatchedPost(row, data, now) ==
  [k \in DOMAIN row |->
     IF k = "slug" /\ Has(data, "title") THEN generateSlug(data.title)
     ELSE IF k # "id" /\ Has(data, k) THEN data[k]
     ELSE IF k = "updated_at" THEN now
     ELSE IF k = "published_at" /\ Has(data, "status") /\ data.status = "published"
     THEN now
     ELSE row[k]]

\* UPDATE posts SET ... WHERE id = ?
UpdatePost(db, id, data, now) ==
  IF id \notin DOMAIN db.posts THEN Ran(db, 0, 0)
  ELSE LET row == PatchedPost(db.posts[id], data, now)
       IN  IF \E i \in DOMAIN db.posts \ {id} : db.posts[i].slug = row.slug
           THEN Threw(db, UNIQUE_FAILED)
           ELSE IF row.category_id # NULL /\ row.category_id \notin DOMAIN db.categories
           THEN Threw(db, FOREIGN_KEY_FAILED)
           ELSE Ran([db EXCEPT !.posts[id] = row], 1, 0)

Restrict(f, S) == [x \in S |-> f[x]]

\* DELETE FROM posts WHERE id = ?, with comments.post_id ON DELETE CASCADE
DeletePost(db, id) ==
  IF id \notin DOMAIN db.posts THEN Ran(db, 0, 0)
  ELSE Ran([db EXCEPT
              !.posts = Restrict(@, DOMAIN @ \ {id}),
              !.comments = Restrict(@, { c \in DOMAIN @ : @[c].post_id # id })],
           1, 0)

\* InsertCategory with slug not UNIQUE
InsertCategoryNameOnly(db, row) ==
  IF \E i \in DOMAIN db.categories : db.categories[i].name = row.name
  THEN Threw(db, UNIQUE_FAILED)
  ELSE LET id == db.seq.categories + 1
       IN  Ran([db EXCEPT !.categories = (id :> ([id |-> id] @@ row)) @@ @,
                          !.seq.categories = id], 1, id)

\* INSERT INTO categories (name, slug, description, created_at) VALUES (...)
InsertCategory(db, row) ==
  IF \E i \in DOMAIN db.categories :
       db.categories[i].name = row.name \/ db.categories[i].slug = row.slug
  THEN Threw(db, UNIQUE_FAILED)
  ELSE LET id == db.seq.categories + 1
       IN  Ran([db EXCEPT !.categories = (id :> ([id |-> id] @@ row)) @@ @,
                          !.seq.categories = id], 1, id)

\* INSERT INTO comments (...) VALUES (?, ?, ?, ?, 'pending', ?)
InsertComment(db, row) ==
  IF row.post_id \notin DOMAIN db.posts THEN Threw(db, FOREIGN_KEY_FAILED)
  ELSE LET id == db.seq.comments + 1
       IN  Ran([db EXCEPT !.comments = (id :> ([id |-> id] @@ row)) @@ @,
                          !.seq.comments = id], 1, id)

\* UPDATE comments SET status = ? WHERE id = ?
UpdateCommentStatus(db, id, status) ==
  IF id \notin DOMAIN db.comments THEN Ran(db, 0, 0)
  ELSE Ran([db EXCEPT !.comments[id].status = status], 1, 0)

\* SELECT * FROM <table> WHERE id = ? : .first(), a one-row sequence or <<>>
SelectById(table, id) ==
  IF id \in DOMAIN table THEN <<table[id]>> ELSE <<>>

\* SelectPublishedId without AND status = "published"
SelectAnyId(db, postId) ==
  IF postId \in DOMAIN db.posts THEN <<postId>> ELSE <<>>

\* SELECT id FROM posts WHERE id = ? AND status = "published"
SelectPublishedId(db, postId) ==
  IF postId \in DOMAIN db.posts /\ db.posts[postId].status = "published"
  THEN <<postId>> ELSE <<>>

----------------------------------------------------------------------------
(* Handlers.  Each is the handler's whole run against a database `db` at   *)
(* the instant `now`: the database it leaves and the response it sends.    *)

Response(db, code, body) == [db |-> db, code |-> code, body |-> body]

NoBody == <<>>

\* formatPost: tags || '', and published_at left out (undefined) when NULL.
\* The timestamps are ISO strings already; toISOString gives them back.
formatPost(post) ==
  [k \in DOMAIN post \ (IF post.published_at = NULL THEN {"published_at"} ELSE {}) |->
     IF k = "tags" /\ post.tags = NULLTEXT THEN EMPTY ELSE post[k]]

\* the row POST /api/admin/posts binds
NewPost(data, now) ==
  [title |-> data.title,
   slug |-> generateSlug(data.title),
   content |-> data.content,
   excerpt |-> TextOr(data, "excerpt", DefaultExcerpt(data.content)),
   author |-> data.author,
   status |-> data.status,
   featured_image |-> TextOr(data, "featured_image", NULLTEXT),
   tags |-> TextOr(data, "tags", EMPTY),
   category_id |-> NumOrNull(data, "category_id"),
   created_at |-> now,
   updated_at |-> now,
   published_at |-> IF data.status = "published" THEN now ELSE NULL]

\* the catch block of the two create handlers
ConflictOr500(error) == IF error = UNIQUE_FAILED THEN 409 ELSE 500

\* POST /api/admin/posts
createPost(db, value, now) ==
  IF ~postSchema(value) THEN Response(db, 400, NoBody)
  ELSE LET ins == InsertPost(db, NewPost(postSchemaData(value), now))
       IN  IF ins.error # "" THEN Response(db, ConflictOr500(ins.error), NoBody)
           ELSE Response(ins.db, 201,
                  formatPost(SelectById(ins.db.posts, ins.result.meta.last_row_id)[1]))

\* PUT /api/admin/posts/:id
updatePost(db, id, value, now) ==
  IF ~postSchemaPartial(value) THEN Response(db, 400, NoBody)
  ELSE LET upd == UpdatePost(db, id, value, now)
       IN  IF upd.error # "" THEN Response(db, 500, NoBody)
           ELSE LET post == SelectById(upd.db.posts, id)
                IN  IF post = <<>> THEN Response(upd.db, 404, NoBody)
                    ELSE Response(upd.db, 200, formatPost(post[1]))

\* DELETE /api/admin/posts/:id
deletePost(db, id) ==
  LET del == DeletePost(db, id)
  IN  IF StrictEq(del.result, "changes", 0) THEN Response(del.db, 404, NoBody)
      ELSE Response(del.db, 200, NoBody)

\* the row POST /api/admin/categories binds
NewCategory(data, now) ==
  [name |-> data.name,
   slug |-> generateSlug(data.name),
   description |-> TextOr(data, "description", NULLTEXT),
   created_at |-> now]

\* POST /api/admin/categories
createCategory(db, value, now) ==
  IF ~categorySchema(value) THEN Response(db, 400, NoBody)
  ELSE LET ins == InsertCategory(db, NewCategory(value, now))
       IN  IF ins.error # "" THEN Response(db, ConflictOr500(ins.error), NoBody)
           ELSE Response(ins.db, 201,
                  SelectById(ins.db.categories, ins.result.meta.last_row_id)[1])

\* the row POST /api/posts/:postId/comments binds
NewComment(postId, data, now) ==
  [post_id |-> postId,
   author_name |-> data.author_name,
   author_email |-> data.author_email,
   content |-> data.content,
   status |-> "pending",
   created_at |-> now]

\* POST /api/posts/:postId/comments
createComment(db, postId, value, now) ==
  IF ~commentSchema(value) THEN Response(db, 400, NoBody)
  ELSE IF SelectPublishedId(db, postId) = <<>> THEN Response(db, 404, NoBody)
  ELSE LET ins == InsertComment(db, NewComment(postId, value, now))
       IN  IF ins.error # "" THEN Response(db, 500, NoBody)
           ELSE Response(ins.db, 201,
                  SelectById(ins.db.comments, ins.result.meta.last_row_id)[1])

\* PUT /api/admin/comments/:id/status
updateCommentStatus(db, id, value) ==
  IF ~statusSchema(value) THEN Response(db, 400, NoBody)
  ELSE LET upd == UpdateCommentStatus(db, id, value.status)
       IN  IF StrictEq(upd.result, "changes", 0) THEN Response(upd.db, 404, NoBody)
           ELSE Response(upd.db, 200, NoBody)

----------------------------------------------------------------------------
(* Read handlers *)

Rows(table) == { table[i] : i \in DOMAIN table }

\* DESC on a nullable timestamp: SQLite sorts NULL below every value
PostBefore(a, b) ==
  \/ a.published_at > b.published_at
  \/ a.published_at = b.published_at /\ a.created_at > b.created_at
  \/ a.published_at = b.published_at /\ a.created_at = b.created_at /\ a.id < b.id

CommentBefore(a, b) ==
  \/ a.created_at < b.created_at
  \/ a.created_at = b.created_at /\ a.id < b.id

RECURSIVE OrderPosts(_)
\* ORDER BY p.published_at DESC, p.created_at DESC
OrderPosts(S) ==
  IF S = {} THEN <<>>
  ELSE LET first == CHOOSE x \in S : \A y \in S \ {x} : PostBefore(x, y)
       IN  <<first>> \o OrderPosts(S \ {first})

RECURSIVE OrderComments(_)
\* ORDER BY created_at ASC
OrderComments(S) ==
  IF S = {} THEN <<>>
  ELSE LET first == CHOOSE x \in S : \A y \in S \ {x} : CommentBefore(x, y)
       IN  <<first>> \o OrderComments(S \ {first})

\* LIMIT ? OFFSET ?
LimitOffset(rows, limit, offset) ==
  SubSeq(rows, offset + 1,
         IF offset + limit < Len(rows) THEN offset + limit ELSE Len(rows))

\* c.req.query(key) || dflt, a text of the query string ('' is falsy)
QueryOr(query, key, dflt) ==
  IF Has(query, key) /\ query[key] # EMPTY THEN query[key] ELSE dflt

\* c.req.query('status') || dflt: a status is written as a TLA+ string
StatusOr(query, dflt) ==
  IF Has(query, "status") /\ query.status # "" THEN query.status ELSE dflt

\* parseInt(c.req.query(key) || dflt), the query giving a decimal number
IntOr(query, key, dflt) ==
  IF Has(query, key) THEN query[key] ELSE dflt

Lowered(s) == [i \in DOMAIN s |-> toLowerCase(s[i])]

\* text LIKE '%search%' (ASCII letters compare case-blind)
Like(text, search) ==
  \E i \in 0..(Len(text) - Len(search)) :
    SubSeq(Lowered(text), i + 1, i + Len(search)) = Lowered(search)

\* p.* with c.name, c.slug of LEFT JOIN categories c ON p.category_id = c.id
JoinCategory(db, p) ==
  IF p.category_id \in DOMAIN db.categories
  THEN p @@ [category_name |-> db.categories[p.category_id].name,
             category_slug |-> db.categories[p.category_id].slug]
  ELSE p @@ [category_name |-> NULLTEXT, category_slug |-> NULLTEXT]

\* the WHERE clause of the list query of GET /api/posts
ListWhere(db, query, p) ==
  /\ p.status = StatusOr(query, "published")
  /\ QueryOr(query, "category", EMPTY) # EMPTY
       => JoinCategory(db, p).category_slug = query.category
  /\ QueryOr(query, "search", EMPTY) # EMPTY
       => Like(p.title, query.search) \/ Like(p.content, query.search)

\* a count query that leaves the category filter out
CountWhereNoCategory(db, query, p) ==
  /\ p.status = StatusOr(query, "published")
  /\ QueryOr(query, "search", EMPTY) # EMPTY
       => Like(p.title, query.search) \/ Like(p.content, query.search)

\* the WHERE clause of its count query
CountWhere(db, query, p) ==
  /\ p.status = StatusOr(query, "published")
  /\ QueryOr(query, "category", EMPTY) # EMPTY
       => \E c \in DOMAIN db.categories :
            c = p.category_id /\ db.categories[c].slug = query.category
  /\ QueryOr(query, "search", EMPTY) # EMPTY
       => Like(p.title, query.search) \/ Like(p.content, query.search)

Ceil(a, b) == (a + b - 1) \div b

\* GET /api/posts
listPosts(db, query) ==
  LET page == IntOr(query, "page", PageDefault)
      limit == IntOr(query, "limit", LimitDefault)
      offset == (page - 1) * limit
      matching == { JoinCategory(db, p) : p \in { r \in Rows(db.posts) : ListWhere(db, query, r) } }
      posts == LimitOffset(OrderPosts(matching), limit, offset)
      total == Cardinality({ r \in Rows(db.posts) : CountWhere(db, query, r) })
  IN  Response(db, 200,
        [posts |-> [i \in DOMAIN posts |-> formatPost(posts[i])],
         pagination |-> [page |-> page, limit |-> limit, total |-> total,
                         pages |-> Ceil(total, limit)]])

\* WHERE post_id = ? AND status = ? ORDER BY created_at ASC
CommentsOf(db, postId, status) ==
  OrderComments({ c \in Rows(db.comments) : c.post_id = postId /\ c.status = status })

\* GET /api/posts/:slug
getPost(db, slug, includeComments) ==
  LET found == { p \in Rows(db.posts) : p.slug = slug /\ p.status = "published" }
  IN  IF found = {} THEN Response(db, 404, [post |-> <<>>, comments |-> <<>>])
      ELSE LET post == JoinCategory(db, CHOOSE p \in found : TRUE)
           IN  Response(db, 200,
                 [post |-> <<formatPost(post)>>,
                  comments |-> IF includeComments
                               THEN CommentsOf(db, post.id, "approved") ELSE <<>>])

\* GET /api/posts/:postId/comments
listComments(db, postId, query) ==
  Response(db, 200, CommentsOf(db, postId, StatusOr(query, "approved")))

RECURSIVE OrderNewestFirst(_)
\* ORDER BY c.created_at DESC
OrderNewestFirst(S) ==
  IF S = {} THEN <<>>
  ELSE LET first == CHOOSE x \in S : \A y \in S \ {x} : CommentBefore(y, x)
       IN  <<first>> \o OrderNewestFirst(S \ {first})

\* c.* with p.title, p.slug of JOIN posts p ON c.post_id = p.id: the rows of
\* comments that have their post
JoinPost(db) ==
  { c @@ [post_title |-> db.posts[c.post_id].title,
          post_slug |-> db.posts[c.post_id].slug] :
      c \in { r \in Rows(db.comments) : r.post_id \in DOMAIN db.posts } }

\* GET /api/admin/comments
adminListComments(db, query) ==
  LET status == StatusOr(query, "pending")
      page == IntOr(query, "page", PageDefault)
      limit == IntOr(query, "limit", AdminLimitDefault)
      offset == (page - 1) * limit
      comments == LimitOffset(
                    OrderNewestFirst({ c \in JoinPost(db) : c.status = status }),
                    limit, offset)
      total == Cardinality({ c \in Rows(db.comments) : c.status = status })
  IN  Response(db, 200,
        [comments |-> comments,
         pagination |-> [page |-> page, limit |-> limit, total |-> total,
                         pages |-> Ceil(total, limit)]])

----------------------------------------------------------------------------
(* The requests the model sends *)

\* ids a request names: the rows' ids, and one no table reaches
MaxId == 2

Ids == 1..MaxId

T_Hi == <<"H", "i">>
T_hi == <<"h", "i", "!">>
T_Yo == <<"Y", "o">>
T_Bang == <<"!", "!">>
S_hi == <<"h", "i">>
S_yo == <<"y", "o">>

PostBodies ==
  { [title |-> T_Hi, content |-> <<"c">>, author |-> <<"a">>, status |-> "published"],
    [title |-> T_Yo, content |-> <<"c">>, author |-> <<"a">>],
    [title |-> T_Bang, content |-> <<"c">>, author |-> <<"a">>, status |-> "published",
     excerpt |-> <<"e">>, tags |-> <<"t">>, featured_image |-> <<"u">>, category_id |-> 1],
    [title |-> EMPTY, content |-> <<"c">>, author |-> <<"a">>] }

PatchBodies ==
  { [title |-> T_Yo],
    [title |-> T_hi, content |-> <<"d">>],
    [status |-> "draft"],
    [status |-> "published"],
    [title |-> EMPTY] }

CategoryBodies ==
  { [name |-> T_Hi], [name |-> S_hi], [name |-> T_Bang], [name |-> EMPTY] }

CommentBodies ==
  { [post_id |-> 1, author_name |-> <<"n">>, author_email |-> <<"m">>, content |-> <<"x">>],
    [post_id |-> 1, author_name |-> <<"n">>, author_email |-> <<"m">>, content |-> EMPTY] }

StatusBodies ==
  { [status |-> "pending"], [status |-> "approved"], [status |-> "rejected"],
    [status |-> "spam"] }

ListQueries ==
  { <<>>, [status |-> "draft"], [category |-> S_hi], [search |-> <<"H">>],
    [page |-> 2, limit |-> 1] }

Slugs == { S_hi, S_yo, EMPTY }

CommentQueries == { <<>>, [status |-> "pending"] }

AdminQueries == { <<>>, [status |-> "approved"], [page |-> 2, limit |-> 1] }

----------------------------------------------------------------------------
(* Requests served one at a time *)

NoResponse == [op |-> "none", code |-> 0, req |-> <<>>, body |-> <<>>]

Init ==
  /\ DB = EmptyDB
  /\ clock = 0
  /\ resp = NoResponse
  /\ inflight = [s \in 1..MaxInflight |-> [op |-> "idle"]]

\* the handler's run `r` is served: its database and its response
Serve(op, req, r) ==
  /\ DB' = r.db
  /\ resp' = [op |-> op, code |-> r.code, req |-> req, body |-> r.body]
  /\ UNCHANGED inflight

\* new Date(): a handler that reads the time reads a later instant than
\* every handler before it.  `early` are the answers sent before the
\* handler gets there.
Now == clock + 1

Timed(r, early) ==
  IF r.code \in early THEN UNCHANGED clock
  ELSE clock < MaxClock /\ clock' = Now

CreatePost ==
  \E value \in PostBodies :
    LET r == createPost(DB, value, Now) IN
    Timed(r, {400}) /\ Serve("createPost", [value |-> value], r)

UpdatePostReq ==
  \E id \in Ids, value \in PatchBodies :
    LET r == updatePost(DB, id, value, Now) IN
    Timed(r, {400}) /\ Serve("updatePost", [id |-> id, value |-> value], r)

DeletePostReq ==
  \E id \in Ids :
    /\ Serve("deletePost", [id |-> id], deletePost(DB, id))
    /\ UNCHANGED clock

CreateCategory ==
  \E value \in CategoryBodies :
    LET r == createCategory(DB, value, Now) IN
    Timed(r, {400}) /\ Serve("createCategory", [value |-> value], r)

CreateComment ==
  \E postId \in Ids, value \in CommentBodies :
    LET r == createComment(DB, postId, value, Now) IN
    Timed(r, {400, 404}) /\ Serve("createComment", [postId |-> postId, value |-> value], r)

UpdateCommentStatusReq ==
  \E id \in Ids, value \in StatusBodies :
    /\ Serve("updateCommentStatus", [id |-> id, value |-> value],
             updateCommentStatus(DB, id, value))
    /\ UNCHANGED clock

ListPosts ==
  \E query \in ListQueries :
    /\ Serve("listPosts", [query |-> query], listPosts(DB, query))
    /\ UNCHANGED clock

GetPost ==
  \E slug \in Slugs, includeComments \in BOOLEAN :
    /\ Serve("getPost", [slug |-> slug, comments |-> includeComments],
             getPost(DB, slug, includeComments))
    /\ UNCHANGED clock

ListComments ==
  \E postId \in Ids, query \in CommentQueries :
    /\ Serve("listComments", [postId |-> postId, query |-> query],
             listComments(DB, postId, query))
    /\ UNCHANGED clock

AdminListComments ==
  \E query \in AdminQueries :
    /\ Serve("adminListComments", [query |-> query], adminListComments(DB, query))
    /\ UNCHANGED clock

Next ==
  \/ CreatePost
  \/ UpdatePostReq
  \/ DeletePostReq
  \/ CreateCategory
  \/ CreateComment
  \/ UpdateCommentStatusReq
  \/ ListPosts
  \/ GetPost
  \/ ListComments
  \/ AdminListComments

Spec == Init /\ [][Next]_vars

----------------------------------------------------------------------------
(* The write handlers statement by statement.  A request in flight holds a *)
(* slot: its handler's position (pc), what the handler has in its locals   *)
(* (req, last_row_id) and, once done, the status code it answered.  Each   *)
(* awaited D1 statement is one step; the handler's own code between two    *)
(* statements, new Date() included, runs with the statement after it.      *)

Slots == 1..MaxInflight

Idle == [op |-> "idle"]

Running(op, pc, req, last_row_id) ==
  [op |-> op, pc |-> pc, req |-> req, last_row_id |-> last_row_id, code |-> 0]

Done(op, req, code) ==
  [op |-> op, pc |-> "done", req |-> req, last_row_id |-> 0, code |-> code]

At(s, op, pc) == inflight[s].op = op /\ inflight[s].pc = pc

ConcTick == clock < MaxConcClock /\ clock' = clock + 1

\* POST /api/admin/posts: validation and the INSERT
PostInsertStep(s) ==
  /\ inflight[s] = Idle
  /\ \E value \in PostBodies :
       LET req == [value |-> value] IN
       IF ~postSchema(value)
       THEN /\ inflight' = [inflight EXCEPT ![s] = Done("createPost", req, 400)]
            /\ UNCHANGED <<DB, clock>>
       ELSE /\ ConcTick
            /\ LET ins == InsertPost(DB, NewPost(postSchemaData(value), clock')) IN
               /\ DB' = ins.db
               /\ inflight' = [inflight EXCEPT ![s] =
                    IF ins.error # "" THEN Done("createPost", req, ConflictOr500(ins.error))
                    ELSE Running("createPost", "select", req, ins.result.meta.last_row_id)]
  /\ UNCHANGED resp

\* ... its SELECT by last_row_id; formatPost(null) throws into the catch
PostSelectStep(s) ==
  /\ At(s, "createPost", "select")
  /\ inflight' = [inflight EXCEPT ![s] =
       Done("createPost", @.req,
            IF SelectById(DB.posts, @.last_row_id) = <<>> THEN 500 ELSE 201)]
  /\ UNCHANGED <<DB, clock, resp>>

\* PUT /api/admin/posts/:id: validation and the UPDATE
PostUpdateStep(s) ==
  /\ inflight[s] = Idle
  /\ \E id \in Ids, value \in PatchBodies :
       LET req == [id |-> id, value |-> value] IN
       IF ~postSchemaPartial(value)
       THEN /\ inflight' = [inflight EXCEPT ![s] = Done("updatePost", req, 400)]
            /\ UNCHANGED <<DB, clock>>
       ELSE /\ ConcTick
            /\ LET upd == UpdatePost(DB, id, value, clock') IN
               /\ DB' = upd.db
               /\ inflight' = [inflight EXCEPT ![s] =
                    IF upd.error # "" THEN Done("updatePost", req, 500)
                    ELSE Running("updatePost", "select", req, 0)]
  /\ UNCHANGED resp

\* ... its SELECT by id
PostReselectStep(s) ==
  /\ At(s, "updatePost", "select")
  /\ inflight' = [inflight EXCEPT ![s] =
       Done("updatePost", @.req,
            IF SelectById(DB.posts, @.req.id) = <<>> THEN 404 ELSE 200)]
  /\ UNCHANGED <<DB, clock, resp>>

\* DELETE /api/admin/posts/:id: one statement
PostDeleteStep(s) ==
  /\ inflight[s] = Idle
  /\ \E id \in Ids :
       LET r == deletePost(DB, id) IN
       /\ DB' = r.db
       /\ inflight' = [inflight EXCEPT ![s] = Done("deletePost", [id |-> id], r.code)]
  /\ UNCHANGED <<clock, resp>>

\* POST /api/admin/categories: validation and the INSERT
CategoryInsertStep(s) ==
  /\ inflight[s] = Idle
  /\ \E value \in CategoryBodies :
       LET req == [value |-> value] IN
       IF ~categorySchema(value)
       THEN /\ inflight' = [inflight EXCEPT ![s] = Done("createCategory", req, 400)]
            /\ UNCHANGED <<DB, clock>>
       ELSE /\ ConcTick
            /\ LET ins == InsertCategory(DB, NewCategory(value, clock')) IN
               /\ DB' = ins.db
               /\ inflight' = [inflight EXCEPT ![s] =
                    IF ins.error # ""
                    THEN Done("createCategory", req, ConflictOr500(ins.error))
                    ELSE Running("createCategory", "select", req,
                                 ins.result.meta.last_row_id)]
  /\ UNCHANGED resp

\* ... its SELECT by last_row_id
CategorySelectStep(s) ==
  /\ At(s, "createCategory", "select")
  /\ inflight' = [inflight EXCEPT ![s] = Done("createCategory", @.req, 201)]
  /\ UNCHANGED <<DB, clock, resp>>

\* POST /api/posts/:postId/comments: validation and the SELECT that
\* verifies the post
CommentVerifyStep(s) ==
  /\ inflight[s] = Idle
  /\ \E postId \in Ids, value \in CommentBodies :
       LET req == [postId |-> postId, value |-> value] IN
       inflight' = [inflight EXCEPT ![s] =
         IF ~commentSchema(value) THEN Done("createComment", req, 400)
         ELSE IF SelectPublishedId(DB, postId) = <<>> THEN Done("createComment", req, 404)
         ELSE Running("createComment", "insert", req, 0)]
  /\ UNCHANGED <<DB, clock, resp>>

\* ... its INSERT
CommentInsertStep(s) ==
  /\ At(s, "createComment", "insert")
  /\ ConcTick
  /\ LET req == inflight[s].req
         ins == InsertComment(DB, NewComment(req.postId, req.value, clock')) IN
     /\ DB' = ins.db
     /\ inflight' = [inflight EXCEPT ![s] =
          IF ins.error # "" THEN Done("createComment", req, 500)
          ELSE Running("createComment", "select", req, ins.result.meta.last_row_id)]
  /\ UNCHANGED resp

\* ... its SELECT by last_row_id
CommentSelectStep(s) ==
  /\ At(s, "createComment", "select")
  /\ inflight' = [inflight EXCEPT ![s] = Done("createComment", @.req, 201)]
  /\ UNCHANGED <<DB, clock, resp>>

\* PUT /api/admin/comments/:id/status: one statement
CommentStatusStep(s) ==
  /\ inflight[s] = Idle
  /\ \E id \in Ids, value \in StatusBodies :
       LET r == updateCommentStatus(DB, id, value) IN
       /\ DB' = r.db
       /\ inflight' = [inflight EXCEPT ![s] =
            Done("updateCommentStatus", [id |-> id, value |-> value], r.code)]
  /\ UNCHANGED <<clock, resp>>

\* the response is sent; the slot takes the next request
Respond(s) ==
  /\ inflight[s] # Idle
  /\ inflight[s].pc = "done"
  /\ inflight' = [inflight EXCEPT ![s] = Idle]
  /\ UNCHANGED <<DB, clock, resp>>

NextConc ==
  \E s \in Slots :
    \/ PostInsertStep(s)
    \/ PostSelectStep(s)
    \/ PostUpdateStep(s)
    \/ PostReselectStep(s)
    \/ PostDeleteStep(s)
    \/ CategoryInsertStep(s)
    \/ CategorySelectStep(s)
    \/ CommentVerifyStep(s)
    \/ CommentInsertStep(s)
    \/ CommentSelectStep(s)
    \/ CommentStatusStep(s)
    \/ Respond(s)

SpecConc == Init /\ [][NextConc]_vars

----------------------------------------------------------------------------
(* Claims *)

Published(db, id) == id \in DOMAIN db.posts /\ db.posts[id].status = "published"

\* C1: every post an unauthenticated read returns (GET /api/posts under any
\* query, GET /api/posts/:slug) has status published.
C1_PublicReadsOnlyPublished ==
  /\ resp.op = "listPosts"
       => \A i \in DOMAIN resp.body.posts : resp.body.posts[i].status = "published"
  /\ resp.op = "getPost" /\ resp.code = 200
       => resp.body.post[1].status = "published"

\* C1, reached: a listing has answered with a post that is a draft.
C1_DraftListed ==
  /\ resp.op = "listPosts"
  /\ \E i \in DOMAIN resp.body.posts : resp.body.posts[i].status = "draft"

\* C2: every stored post has published_at non-null exactly when its status
\* is published.
C2_PublishedAtIffPublished ==
  \A id \in DOMAIN DB.posts :
    (DB.posts[id].published_at # NULL) <=> (DB.posts[id].status = "published")

\* C2, reached: a post published earlier was updated to draft and keeps its
\* published_at.
C2_DraftKeepsPublishedAt ==
  /\ resp.op = "updatePost" /\ resp.code = 200
  /\ Has(resp.req.value, "status") /\ resp.req.value.status = "draft"
  /\ DB.posts[resp.req.id].published_at # NULL

\* C3: a valid comment submission to a post id that is missing or a draft
\* answers 404 and leaves the comments table as it was; one to a published
\* post answers 201 and adds exactly one row, for that post, with status
\* pending.
C3_CommentSubmission ==
  [][ resp'.op = "createComment" /\ commentSchema(resp'.req.value)
      => IF Published(DB, resp'.req.postId)
         THEN /\ resp'.code = 201
              /\ \E id \in DOMAIN DB'.comments \ DOMAIN DB.comments :
                   /\ DOMAIN DB'.comments = DOMAIN DB.comments \cup {id}
                   /\ DB'.comments[id].status = "pending"
                   /\ DB'.comments[id].post_id = resp'.req.postId
              /\ \A id \in DOMAIN DB.comments : DB'.comments[id] = DB.comments[id]
         ELSE /\ resp'.code = 404
              /\ DB'.comments = DB.comments ]_vars

\* C3, reached: a submission to a stored draft was answered 404 while a
\* comment of an earlier submission is stored.
C3_DraftRefused ==
  /\ resp.op = "createComment" /\ resp.code = 404
  /\ resp.req.postId \in DOMAIN DB.posts
  /\ DB.posts[resp.req.postId].status = "draft"
  /\ DB.comments # <<>>

\* C4: the public comment listing of a post, under any query, is exactly
\* the post's approved comments, oldest first.
C4_ListingOnlyApproved ==
  resp.op = "listComments"
    => /\ Range(resp.body) =
            { c \in Rows(DB.comments) :
                c.post_id = resp.req.postId /\ c.status = "approved" }
       /\ \A i, j \in DOMAIN resp.body :
            i < j => resp.body[i].created_at <= resp.body[j].created_at

\* C4, reached: the listing has answered with a comment still pending.
C4_PendingListed ==
  /\ resp.op = "listComments"
  /\ \E i \in DOMAIN resp.body : resp.body[i].status = "pending"

\* C5: every stored post and every stored category has a non-empty slug.
C5_SlugsNonEmpty ==
  /\ \A id \in DOMAIN DB.posts : DB.posts[id].slug # EMPTY
  /\ \A id \in DOMAIN DB.categories : DB.categories[id].slug # EMPTY

\* C5, reached: a create whose title passes validation and derives the
\* empty slug was answered 201 and its row is stored.
C5_EmptySlugCreated ==
  /\ resp.op = "createPost" /\ resp.code = 201
  /\ generateSlug(resp.req.value.title) = EMPTY
  /\ \E id \in DOMAIN DB.posts : DB.posts[id].slug = EMPTY

\* C6: under any interleaving of category creates the stored names and
\* slugs are pairwise distinct, a create that has answered leaves exactly one
\* stored row holding its name or its slug, and of two creates in flight
\* with the same name or the same derived slug at most one is answered 201,
\* the other 409.
C6_CategoriesUnique ==
  /\ \A i, j \in DOMAIN DB.categories :
       i # j => /\ DB.categories[i].name # DB.categories[j].name
                /\ DB.categories[i].slug # DB.categories[j].slug
  /\ \A s \in Slots :
       At(s, "createCategory", "done") /\ categorySchema(inflight[s].req.value)
         => /\ inflight[s].code \in {201, 409}
            /\ Cardinality({ i \in DOMAIN DB.categories :
                 \/ DB.categories[i].name = inflight[s].req.value.name
                 \/ DB.categories[i].slug = generateSlug(inflight[s].req.value.name) }) = 1
  /\ \A s, t \in Slots :
       /\ s # t
       /\ At(s, "createCategory", "done") /\ At(t, "createCategory", "done")
       /\ categorySchema(inflight[s].req.value) /\ categorySchema(inflight[t].req.value)
       /\ generateSlug(inflight[s].req.value.name) = generateSlug(inflight[t].req.value.name)
       => ~(inflight[s].code = 201 /\ inflight[t].code = 201)

\* C6, reached: two creates whose different names derive one slug were in
\* flight together; one was answered 201, the other 409, one row is stored.
C6_RaceLost ==
  \E s, t \in Slots :
    /\ At(s, "createCategory", "done") /\ At(t, "createCategory", "done")
    /\ inflight[s].req.value.name = T_Hi /\ inflight[t].req.value.name = S_hi
    /\ inflight[s].code = 201 /\ inflight[t].code = 409
    /\ Cardinality(DOMAIN DB.categories) = 1

\* C7: deleting a stored post removes it and every comment on it, after
\* which fetching its slug answers 404; deleting an id that matches no post
\* answers 404 and changes nothing.
C7_DeleteCascades ==
  [][ resp'.op = "deletePost"
      => IF resp'.req.id \in DOMAIN DB.posts
         THEN /\ resp'.code = 200
              /\ resp'.req.id \notin DOMAIN DB'.posts
              /\ \A c \in DOMAIN DB'.comments : DB'.comments[c].post_id # resp'.req.id
              /\ getPost(DB', DB.posts[resp'.req.id].slug, FALSE).code = 404
         ELSE /\ resp'.code = 404
              /\ DB' = DB ]_vars

\* C7, reached: a delete of an id that no post has was answered 200.
C7_MissingDeleted ==
  /\ resp.op = "deletePost" /\ resp.code = 200
  /\ DB.seq.posts < resp.req.id

FrameKeys ==
  {"content", "excerpt", "author", "status", "featured_image", "tags", "category_id"}

\* C8: an update that supplies title and is answered 200 sets the slug to the
\* one derived from the new title, refreshes updated_at to the instant of the
\* request, and leaves created_at and every field the body does not supply
\* (content, excerpt, author, status, featured_image, tags, category_id) as
\* they were.
C8_TitlePatchFrame ==
  [][ resp'.op = "updatePost" /\ resp'.code = 200 /\ Has(resp'.req.value, "title")
      => LET id == resp'.req.id
             value == resp'.req.value
         IN  /\ id \in DOMAIN DB.posts
             /\ DB'.posts[id].title = value.title
             /\ DB'.posts[id].slug = generateSlug(value.title)
             /\ DB'.posts[id].updated_at = clock'
             /\ DB'.posts[id].updated_at > DB.posts[id].updated_at
             /\ DB'.posts[id].created_at = DB.posts[id].created_at
             /\ \A k \in FrameKeys \ DOMAIN value : DB'.posts[id][k] = DB.posts[id][k] ]_vars

\* C8, reached: a title-only update of a published post was answered 200;
\* the post has the new slug, a later updated_at, and is still published.
C8_TitlePatched ==
  /\ resp.op = "updatePost" /\ resp.code = 200
  /\ resp.req.value = [title |-> T_Yo]
  /\ DB.posts[resp.req.id].slug = S_yo
  /\ DB.posts[resp.req.id].status = "published"
  /\ DB.posts[resp.req.id].updated_at > DB.posts[resp.req.id].created_at

\* the slug a post write derives is held by a post other than `id`
SlugTaken(db, title, id) ==
  \E i \in DOMAIN db.posts \ {id} : db.posts[i].slug = generateSlug(title)

\* C9: a create, or an update of a stored post that supplies a title, whose
\* derived slug a different post holds is answered 409 and leaves the posts
\* as they were.
C9_SlugConflict409 ==
  [][ /\ resp'.op = "createPost" /\ postSchema(resp'.req.value)
         /\ SlugTaken(DB, resp'.req.value.title, NULL)
           => resp'.code = 409 /\ DB'.posts = DB.posts
      /\ resp'.op = "updatePost" /\ postSchemaPartial(resp'.req.value)
         /\ Has(resp'.req.value, "title") /\ resp'.req.id \in DOMAIN DB.posts
         /\ SlugTaken(DB, resp'.req.value.title, resp'.req.id)
           => resp'.code = 409 /\ DB'.posts = DB.posts ]_vars

\* C9, reached: an update whose title derives another post's slug was
\* answered 500.
C9_UpdateConflict500 ==
  /\ resp.op = "updatePost" /\ resp.code = 500
  /\ Has(resp.req.value, "title") /\ resp.req.id \in DOMAIN DB.posts
  /\ SlugTaken(DB, resp.req.value.title, resp.req.id)

\* C10: under any interleaving a comment row is inserted only while its
\* post is stored and published.
C10_InsertOnlyUnderPublished ==
  [][ \A c \in DOMAIN DB'.comments \ DOMAIN DB.comments :
        Published(DB, DB'.comments[c].post_id) ]_vars

\* C10, reached: a submission answered 201 after its post had become a
\* draft; its comment is stored under the draft.
C10_CommentUnderDraft ==
  \E s \in Slots :
    /\ At(s, "createComment", "done") /\ inflight[s].code = 201
    /\ \E c \in DOMAIN DB.comments :
         /\ DB.comments[c].post_id = inflight[s].req.postId
         /\ DB.posts[DB.comments[c].post_id].status = "draft"
         /\ DB.posts[DB.comments[c].post_id].updated_at < DB.comments[c].created_at

\* the page sizes and the filters C11 is checked for
MaxLimit == 2

Limits == 1..MaxLimit

FilterQueries ==
  { <<>>, [status |-> "draft"], [category |-> S_hi], [category |-> S_yo],
    [search |-> <<"H">>],
    [status |-> "published", category |-> S_hi, search |-> <<"c">>] }

CommentStatuses == {"pending", "approved", "rejected"}

\* the rows of page p, L to a page, of `rows`
PageOf(rows, p, L) ==
  LET left == Len(rows) - (p - 1) * L
      n == IF left < 0 THEN 0 ELSE IF left < L THEN left ELSE L
  IN  [i \in 1..n |-> rows[(p - 1) * L + i]]

\* total, pages and the pages 1..pages+1 that `List` answers with, L rows to
\* a page, against `ordered`, the matching rows in the listing's order:
\* total counts them, pages is ceil(total / L), page p holds the rows from
\* offset (p - 1) * L on, and each row is on exactly one of the pages 1..pages
Paginates(List(_, _), Items(_), ordered, L) ==
  LET first == List(1, L).pagination
  IN  /\ first.total = Len(ordered)
      /\ first.pages * L >= first.total
      /\ (first.pages - 1) * L < first.total
      /\ \A p \in 1..(first.pages + 1) :
           /\ Items(List(p, L)) = PageOf(ordered, p, L)
           /\ List(p, L).pagination = [first EXCEPT !.page = p]
      /\ \A k \in DOMAIN ordered :
           Cardinality({ pi \in (1..first.pages) \X (1..L) :
             /\ pi[2] <= Len(Items(List(pi[1], L)))
             /\ Items(List(pi[1], L))[pi[2]].id = ordered[k].id }) = 1

PostItems(body) == body.posts

CommentItems(body) == body.comments

Ascending(comments) ==
  \A i, j \in DOMAIN comments :
    i < j => comments[i].created_at <= comments[j].created_at

\* C12: every comment listing answers oldest first: the public listing of a
\* post, the comments of GET /api/posts/:slug, and the admin moderation
\* queue.
C12_CommentsOldestFirst ==
  /\ resp.op = "listComments" => Ascending(resp.body)
  /\ resp.op = "getPost" => Ascending(resp.body.comments)
  /\ resp.op = "adminListComments" => Ascending(resp.body.comments)

\* C12, reached: the moderation queue was answered with two comments, the
\* newer one first.
C12_QueueNewestFirst ==
  /\ resp.op = "adminListComments"
  /\ Len(resp.body.comments) = 2
  /\ resp.body.comments[1].created_at > resp.body.comments[2].created_at

====
